---- MODULE Spec2Model ----
(***************************************************************************)
(* Model of tools/fill_icon_urls.py: the slug normaliser (slugify), the    *)
(* icon locator (find_image_for), the record filler (fill_game_icon) and   *)
(* the batch driver (main).                                                *)
(*                                                                         *)
(* Text is a sequence of characters; a character is a one-character string *)
(* or, for a code point outside ASCII, its name "U+XXXX".  A JSON value is *)
(* a record [t, v]: t is its type and v its text (the characters of a      *)
(* string, the literal of a number).  A path is the text of the path.      *)
(***************************************************************************)
EXTENDS Integers, Sequences, FiniteSets, TLC

VARIABLES
    \* ---- slugify called on its own
    text,            \* the argument of slugify (a JSON string or None)
    slug,            \* what slugify returned, NotCalled before the call
    \* ---- the image tree, shared by the resolver and the driver
    fs,              \* the set of paths that exist under IMG_DIR
    \* ---- find_image_for / fill_game_icon called on their own
    r_year,          \* the year argument
    base_slug,       \* the base_slug argument of find_image_for
    img_path,        \* what find_image_for returned, NotCalled before the call
    game_obj,        \* the game object handed to fill_game_icon
    first_obj,       \* the game object as the first call left it
    outcome,         \* how the last fill_game_icon call ended
    slugged,         \* whether the last fill_game_icon call ran slugify
    probes,          \* the paths the last call asked the file system about
    calls,           \* number of fill_game_icon calls made on game_obj
    \* ---- main
    json_dir_exists, \* JSON_DIR.exists()
    files,           \* sorted(JSON_DIR.glob(JSON_GLOB))
    disk,            \* file name -> the JSON document stored in the file
    pc,              \* position of main
    idx,             \* index in files of the file being processed
    loaded,          \* the document as json.loads returned it
    data,            \* the in-memory document
    year,            \* int(data.get("year"))
    changed,         \* the changed flag of the current file
    changed_files,   \* the changed_files counter
    out,             \* the lines printed so far
    reads,           \* the files read in this run, in order
    writes,          \* the files written in this run, in order
    disk0,           \* the disk as it was when this run started
    error,           \* the exception that ended the run, "none" without one
    history,         \* changed_files of every completed earlier run
    run              \* number of the current run of main

slugVars == <<text, slug>>
resVars  == <<r_year, base_slug, img_path, game_obj, first_obj, outcome, slugged,
              probes, calls>>
mainVars == <<json_dir_exists, files, disk, pc, idx, loaded, data, year, changed,
              changed_files, out, reads, writes, disk0, error, history, run>>
vars     == <<text, slug, fs, r_year, base_slug, img_path, game_obj, first_obj,
              outcome, slugged, probes, calls, json_dir_exists, files, disk, pc, idx, loaded,
              data, year, changed, changed_files, out, reads, writes, disk0, error,
              history, run>>

(***************************************************************************)
(* Bounds of the model.                                                    *)
(***************************************************************************)
MaxLen == 3
MaxPresent == 2
MaxCalls == 2
MaxEntries == 2
NumFiles == 3
MaxRuns == 2

(***************************************************************************)
(* Characters and JSON values.                                             *)
(***************************************************************************)
LowerLetters ==
    <<"a","b","c","d","e","f","g","h","i","j","k","l","m",
      "n","o","p","q","r","s","t","u","v","w","x","y","z">>
UpperLetters ==
    <<"A","B","C","D","E","F","G","H","I","J","K","L","M",
      "N","O","P","Q","R","S","T","U","V","W","X","Y","Z">>
Digits == <<"0","1","2","3","4","5","6","7","8","9">>

Range(s) == {s[i] : i \in DOMAIN s}

\* the class [a-z0-9] of the regular expression
Alnum == Range(LowerLetters) \cup Range(Digits)
\* the characters str.strip() removes
Whitespace == {" ", "\t", "\n", "U+00A0"}

NotCalled == [t |-> "notcalled", v |-> <<>>]
None      == [t |-> "null", v |-> <<>>]
Absent    == [t |-> "absent", v |-> <<>>]
JStr(s)   == [t |-> "str", v |-> s]
JInt(s)   == [t |-> "int", v |-> s]
JFloat(s) == [t |-> "float", v |-> s]

(***************************************************************************)
(* slugify and the string methods it uses.                                 *)
(***************************************************************************)
\* str.lower() of one character; U+0130 lowers to two code points
LowerChar(c) ==
    IF \E i \in DOMAIN UpperLetters : UpperLetters[i] = c
    THEN <<LowerLetters[CHOOSE i \in DOMAIN UpperLetters : UpperLetters[i] = c]>>
    ELSE IF c = "U+00C9" THEN <<"U+00E9">>
    ELSE IF c = "U+0130" THEN <<"i", "U+0307">>
    ELSE <<c>>

RECURSIVE Lower(_)
Lower(s) == IF s = <<>> THEN <<>> ELSE LowerChar(Head(s)) \o Lower(Tail(s))

RECURSIVE LStrip(_, _)
LStrip(s, cs) ==
    IF s # <<>> /\ Head(s) \in cs THEN LStrip(Tail(s), cs) ELSE s

RECURSIVE RStrip(_, _)
RStrip(s, cs) ==
    IF s # <<>> /\ s[Len(s)] \in cs THEN RStrip(SubSeq(s, 1, Len(s) - 1), cs) ELSE s

\* str.strip(): both ends, the given characters
Strip(s, cs) == RStrip(LStrip(s, cs), cs)

\* str.replace(c, by) for a one-character c
RECURSIVE Replace(_, _, _)
Replace(s, c, by) ==
    IF s = <<>> THEN <<>>
    ELSE (IF Head(s) = c THEN by ELSE <<Head(s)>>) \o Replace(Tail(s), c, by)

\* re.sub(r"[^a-z0-9]+", "_", s): every maximal run outside [a-z0-9] becomes one "_"
RECURSIVE SubNonAlnum(_)
SubNonAlnum(s) ==
    IF s = <<>> THEN <<>>
    ELSE IF Head(s) \in Alnum THEN <<Head(s)>> \o SubNonAlnum(Tail(s))
    ELSE <<"_">> \o SubNonAlnum(LStrip(Tail(s), {c \in Range(s) : c \notin Alnum}))

\* re.sub(r"_+", "_", s)
RECURSIVE SubUnderscores(_)
SubUnderscores(s) ==
    IF s = <<>> THEN <<>>
    ELSE IF Head(s) = "_" THEN <<"_">> \o SubUnderscores(LStrip(Tail(s), {"_"}))
    ELSE <<Head(s)>> \o SubUnderscores(Tail(s))

UNKNOWN == <<"u","n","k","n","o","w","n">>

\* text is a JSON string or None; `text or ""` is "" for None
slugify_keeps_edges(t) ==
    LET s0 == Lower(Strip(IF t.t = "str" THEN t.v ELSE <<>>, Whitespace))
        s1 == Replace(s0, "&", <<"a","n","d">>)
        s2 == Replace(Replace(s1, "U+00AE", <<>>), "U+2122", <<>>)
        s3 == Replace(Replace(s2, "U+2019", <<>>), "'", <<>>)
        s4 == SubNonAlnum(s3)
        s5 == SubUnderscores(s4)
    IN  IF s5 = <<>> THEN UNKNOWN ELSE s5

slugify(t) ==
    LET s0 == Lower(Strip(IF t.t = "str" THEN t.v ELSE <<>>, Whitespace))
        s1 == Replace(s0, "&", <<"a","n","d">>)
        s2 == Replace(Replace(s1, "U+00AE", <<>>), "U+2122", <<>>)
        s3 == Replace(Replace(s2, "U+2019", <<>>), "'", <<>>)
        s4 == SubNonAlnum(s3)
        s5 == Strip(SubUnderscores(s4), {"_"})
    IN  IF s5 = <<>> THEN UNKNOWN ELSE s5

(***************************************************************************)
(* Configuration constants.                                                *)
(***************************************************************************)
IMG_DIR     == <<"i","m","g">>
PLACEHOLDER == <<"i","m","g","/","*">>
EXTS        == << <<".","j","p","g">>, <<".","j","p","e","g">>,
                  <<".","p","n","g">>, <<".","w","e","b","p">> >>
SUFFIXES    == << <<>>, <<"_","2">>, <<"_","3">>, <<"_","4">>, <<"_","5">> >>

(***************************************************************************)
(* find_image_for.                                                         *)
(***************************************************************************)
\* str(n) of an integer
RECURSIVE NatToStr(_)
NatToStr(n) ==
    IF n < 10 THEN <<Digits[n + 1]>> ELSE NatToStr(n \div 10) \o <<Digits[(n % 10) + 1]>>

IntToStr(n) == IF n < 0 THEN <<"-">> \o NatToStr(0 - n) ELSE NatToStr(n)

\* pathlib's a / b
Join(a, b) == a \o <<"/">> \o b

\* Path.exists()
Exists(p) == p \in fs

\* the file names of the two nested loops, in the order the loops try them
CandidatesExtMajor(b) ==
    [k \in 1..(Len(SUFFIXES) * Len(EXTS)) |->
        b \o SUFFIXES[((k - 1) % Len(SUFFIXES)) + 1] \o EXTS[((k - 1) \div Len(SUFFIXES)) + 1]]

Candidates(b) ==
    [k \in 1..(Len(SUFFIXES) * Len(EXTS)) |->
        b \o SUFFIXES[((k - 1) \div Len(EXTS)) + 1] \o EXTS[((k - 1) % Len(EXTS)) + 1]]

\* the loops from candidate k on: the first existing candidate ends them
RECURSIVE ProbeFrom(_, _, _, _)
ProbeFrom(y, cands, k, asked) ==
    IF k > Len(cands) THEN [ret |-> None, probes |-> asked]
    ELSE LET p == Join(Join(IMG_DIR, IntToStr(y)), cands[k])
         IN  IF Exists(p)
             THEN [ret    |-> JStr(<<"i","m","g","/">> \o IntToStr(y) \o <<"/">> \o cands[k]),
                   probes |-> Append(asked, p)]
             ELSE ProbeFrom(y, cands, k + 1, Append(asked, p))

find_image_for(y, b) ==
    LET year_dir == Join(IMG_DIR, IntToStr(y))
    IN  IF ~Exists(year_dir)
        THEN [ret |-> None, probes |-> <<year_dir>>]
        ELSE ProbeFrom(y, Candidates(b), 1, <<year_dir>>)

(***************************************************************************)
(* fill_game_icon.  A game object is [t |-> "dict", game_name, icon_url],  *)
(* a key the dict does not have holding Absent.                            *)
(***************************************************************************)
Dict(n, i) == [t |-> "dict", game_name |-> n, icon_url |-> i]

\* Python's truth value of what dict.get returned
Truthy(j) ==
    CASE j.t = "str"   -> j.v # <<>>
      [] j.t = "int"   -> j.v # <<"0">>
      [] j.t = "float" -> TRUE
      [] OTHER         -> FALSE

\* fill_game_icon storing what find_image_for returned, without the fallback
fill_game_icon_no_fallback(y, g) ==
    IF ~Truthy(g.game_name)
    THEN [obj |-> [g EXCEPT !.icon_url = JStr(PLACEHOLDER)], outcome |-> "returned",
          slugged |-> FALSE, probes |-> <<>>]
    ELSE IF g.game_name.t # "str"
    THEN [obj |-> g, outcome |-> "raised", slugged |-> FALSE, probes |-> <<>>]
    ELSE LET name == Strip(g.game_name.v, Whitespace)
         IN  IF name = <<>>
             THEN [obj |-> [g EXCEPT !.icon_url = JStr(PLACEHOLDER)],
                   outcome |-> "returned", slugged |-> FALSE, probes |-> <<>>]
             ELSE LET found == find_image_for(y, slugify(JStr(name)))
                  IN  [obj |-> [g EXCEPT !.icon_url = found.ret],
                       outcome |-> "returned", slugged |-> TRUE,
                       probes |-> found.probes]

\* fill_game_icon taking a placeholder already present as a mark to clear
fill_game_icon_clears_placeholder(y, g) ==
    LET fallback == IF g.icon_url = JStr(PLACEHOLDER) THEN Absent ELSE JStr(PLACEHOLDER)
    IN  IF ~Truthy(g.game_name)
        THEN [obj |-> [g EXCEPT !.icon_url = fallback], outcome |-> "returned",
              slugged |-> FALSE, probes |-> <<>>]
        ELSE IF g.game_name.t # "str"
        THEN [obj |-> g, outcome |-> "raised", slugged |-> FALSE, probes |-> <<>>]
        ELSE LET name == Strip(g.game_name.v, Whitespace)
             IN  IF name = <<>>
                 THEN [obj |-> [g EXCEPT !.icon_url = fallback],
                       outcome |-> "returned", slugged |-> FALSE, probes |-> <<>>]
                 ELSE LET found == find_image_for(y, slugify(JStr(name)))
                      IN  [obj |-> [g EXCEPT !.icon_url =
                                       IF found.ret.t = "str" /\ found.ret.v # <<>>
                                       THEN found.ret ELSE fallback],
                           outcome |-> "returned", slugged |-> TRUE,
                           probes |-> found.probes]

\* fill_game_icon without the early return for an empty name
fill_game_icon_always_looks(y, g) ==
    IF Truthy(g.game_name) /\ g.game_name.t # "str"
    THEN [obj |-> g, outcome |-> "raised", slugged |-> FALSE, probes |-> <<>>]
    ELSE LET name  == Strip(IF g.game_name.t = "str" THEN g.game_name.v ELSE <<>>,
                            Whitespace)
             found == find_image_for(y, slugify(JStr(name)))
         IN  [obj |-> [g EXCEPT !.icon_url =
                          IF found.ret.t = "str" /\ found.ret.v # <<>>
                          THEN found.ret ELSE JStr(PLACEHOLDER)],
              outcome |-> "returned", slugged |-> TRUE, probes |-> found.probes]

\* the result: the object, how the call ended, whether slugify ran, the probes
fill_game_icon(y, g) ==
    IF ~Truthy(g.game_name)
    THEN [obj |-> [g EXCEPT !.icon_url = JStr(PLACEHOLDER)], outcome |-> "returned",
          slugged |-> FALSE, probes |-> <<>>]
    ELSE IF g.game_name.t # "str"
    THEN \* a number has no strip(): AttributeError
         [obj |-> g, outcome |-> "raised", slugged |-> FALSE, probes |-> <<>>]
    ELSE LET name == Strip(g.game_name.v, Whitespace)
         IN  IF name = <<>>
             THEN [obj |-> [g EXCEPT !.icon_url = JStr(PLACEHOLDER)],
                   outcome |-> "returned", slugged |-> FALSE, probes |-> <<>>]
             ELSE LET found == find_image_for(y, slugify(JStr(name)))
                  IN  [obj |-> [g EXCEPT !.icon_url =
                                   IF found.ret.t = "str" /\ found.ret.v # <<>>
                                   THEN found.ret ELSE JStr(PLACEHOLDER)],
                       outcome |-> "returned", slugged |-> TRUE,
                       probes |-> found.probes]

(***************************************************************************)
(* int(data.get("year")).                                                  *)
(***************************************************************************)
DigitValue(c) == (CHOOSE i \in DOMAIN Digits : Digits[i] = c) - 1

RECURSIVE ParseNat(_, _)
ParseNat(s, acc) ==
    IF s = <<>> THEN acc ELSE ParseNat(Tail(s), 10 * acc + DigitValue(Head(s)))

\* the digits of an integer literal of int(): digits, single "_" between them
DigitsOk(s) ==
    /\ s # <<>>
    /\ \A i \in DOMAIN s : s[i] \in Range(Digits) \cup {"_"}
    /\ s[1] # "_"
    /\ s[Len(s)] # "_"
    /\ \A i \in 1..(Len(s) - 1) : ~(s[i] = "_" /\ s[i + 1] = "_")

Signed(s) == s # <<>> /\ Head(s) \in {"-", "+"}

\* the characters of a float literal before its "."
RECURSIVE IntPart(_)
IntPart(s) ==
    IF s = <<>> \/ Head(s) = "." THEN <<>> ELSE <<Head(s)>> \o IntPart(Tail(s))

\* the value of a literal [sign] digits
SignedValue(s) ==
    LET body == IF Signed(s) THEN Tail(s) ELSE s
        n    == ParseNat(Replace(body, "_", <<>>), 0)
    IN  IF s # <<>> /\ Head(s) = "-" THEN 0 - n ELSE n

\* int() accepting every value, None counting as 0
py_int_lenient(j) ==
    CASE j.t = "int"   -> [ok |-> TRUE, n |-> SignedValue(j.v), error |-> "none"]
      [] j.t = "float" -> [ok |-> TRUE, n |-> SignedValue(IntPart(j.v)), error |-> "none"]
      [] j.t = "str"   ->
            LET s == Strip(j.v, Whitespace)
            IN  IF DigitsOk(IF Signed(s) THEN Tail(s) ELSE s)
                THEN [ok |-> TRUE, n |-> SignedValue(s), error |-> "none"]
                ELSE [ok |-> TRUE, n |-> 0, error |-> "none"]
      [] OTHER         -> [ok |-> TRUE, n |-> 0, error |-> "none"]

\* int(x) of what dict.get returned: a JSON integer is itself, a float is
\* truncated, a string is parsed, None (null or no key) is a TypeError
py_int(j) ==
    CASE j.t = "int"   -> [ok |-> TRUE, n |-> SignedValue(j.v), error |-> "none"]
      [] j.t = "float" -> [ok |-> TRUE, n |-> SignedValue(IntPart(j.v)), error |-> "none"]
      [] j.t = "str"   ->
            LET s == Strip(j.v, Whitespace)
            IN  IF DigitsOk(IF Signed(s) THEN Tail(s) ELSE s)
                THEN [ok |-> TRUE, n |-> SignedValue(s), error |-> "none"]
                ELSE [ok |-> FALSE, n |-> 0, error |-> "ValueError"]
      [] OTHER         -> [ok |-> FALSE, n |-> 0, error |-> "TypeError"]

(***************************************************************************)
(* The loop of main over the awards of one document.  A document is        *)
(* [year, awards]; an award is [winner, nominees]; a winner or a nominee   *)
(* is a game object or another JSON value.                                 *)
(***************************************************************************)
\* dict.get("icon_url"): None for a missing key
PyGet(j) == IF j.t = "absent" THEN None ELSE j

\* the comparison made on identity: two equal strings are not the same object
icon_changed_by_identity(before, after) == TRUE

\* winner.get("icon_url") != before
icon_changed(before, after) == PyGet(after) # PyGet(before)

\* visit leaving alone a game object that has an icon_url already
visit_only_missing(y, e) ==
    IF e.t # "dict" \/ e.icon_url.t # "absent"
    THEN [e |-> e, changed |-> FALSE, raised |-> FALSE]
    ELSE [e       |-> fill_game_icon(y, e).obj,
          changed |-> fill_game_icon(y, e).outcome = "returned",
          raised  |-> fill_game_icon(y, e).outcome = "raised"]

\* lines 74-78 and 83-88: fill e when it is a dict
visit(y, e) ==
    IF e.t # "dict" THEN [e |-> e, changed |-> FALSE, raised |-> FALSE]
    ELSE LET r == fill_game_icon(y, e)
         IN  [e       |-> r.obj,
              changed |-> r.outcome = "returned" /\ icon_changed(e.icon_url, r.obj.icon_url),
              raised  |-> r.outcome = "raised"]

RECURSIVE visit_nominees(_, _, _, _)

\* lines 85-88 for nominee k, r being what visiting it gave
step_nominee(y, noms, k, ch, r) ==
    IF r.raised THEN [nominees |-> noms, changed |-> ch, raised |-> TRUE]
    ELSE visit_nominees(y, [noms EXCEPT ![k] = r.e], k + 1, ch \/ r.changed)

\* the loop over nominees leaving at the first entry that is no dict
visit_nominees_breaks(y, noms, k, ch) ==
    IF k > Len(noms) \/ noms[k].t # "dict"
    THEN [nominees |-> noms, changed |-> ch, raised |-> FALSE]
    ELSE step_nominee(y, noms, k, ch, visit(y, noms[k]))

\* the loop over nominees never setting the flag
visit_nominees_no_flag(y, noms, k, ch) ==
    IF k > Len(noms) THEN [nominees |-> noms, changed |-> ch, raised |-> FALSE]
    ELSE step_nominee(y, noms, k, ch, [visit(y, noms[k]) EXCEPT !.changed = FALSE])

\* lines 82-88 from nominee k on, ch being the changed flag so far
visit_nominees(y, noms, k, ch) ==
    IF k > Len(noms) THEN [nominees |-> noms, changed |-> ch, raised |-> FALSE]
    ELSE step_nominee(y, noms, k, ch, visit(y, noms[k]))

RECURSIVE visit_awards(_, _, _, _)

\* lines 80-88 of award k done, n being what the loop over its nominees gave
after_nominees(y, awards, k, n) ==
    IF n.raised
    THEN [awards  |-> [awards EXCEPT ![k].nominees = n.nominees],
          changed |-> n.changed, raised |-> TRUE]
    ELSE visit_awards(y, [awards EXCEPT ![k].nominees = n.nominees], k + 1, n.changed)

\* lines 74-78 of award k done, w being what visiting its winner gave
after_winner(y, awards, k, ch, w) ==
    IF w.raised THEN [awards |-> awards, changed |-> ch, raised |-> TRUE]
    ELSE after_nominees(y, [awards EXCEPT ![k].winner = w.e], k,
                        visit_nominees(y, awards[k].nominees, 1, ch \/ w.changed))

\* lines 72-88 from award k on
visit_awards(y, awards, k, ch) ==
    IF k > Len(awards) THEN [awards |-> awards, changed |-> ch, raised |-> FALSE]
    ELSE after_winner(y, awards, k, ch, visit(y, awards[k].winner))

(***************************************************************************)
(* Values of the variables a specification does not use.                   *)
(***************************************************************************)
IdleSlug ==
    /\ text = None
    /\ slug = NotCalled

IdleRes ==
    /\ r_year = 0
    /\ base_slug = <<>>
    /\ img_path = NotCalled
    /\ game_obj = Dict(Absent, Absent)
    /\ first_obj = Dict(Absent, Absent)
    /\ outcome = "none"
    /\ slugged = FALSE
    /\ probes = <<>>
    /\ calls = 0

IdleMain ==
    /\ json_dir_exists = FALSE
    /\ files = <<>>
    /\ disk = <<>>
    /\ pc = "idle"
    /\ idx = 0
    /\ loaded = None
    /\ data = None
    /\ year = 0
    /\ changed = FALSE
    /\ changed_files = 0
    /\ out = <<>>
    /\ reads = <<>>
    /\ writes = <<>>
    /\ disk0 = <<>>
    /\ error = "none"
    /\ history = <<>>
    /\ run = 0

(***************************************************************************)
(* slugify on its own: every text of at most MaxLen characters over an     *)
(* alphabet with a member of each class of character the function tells    *)
(* apart, and None.                                                        *)
(***************************************************************************)
SlugAlphabet ==
    {"A", "b", "7", " ", "\t", "&", "'", "U+2122", "_", "-", "U+00C9", "U+0130"}

Texts == UNION {[1..n -> SlugAlphabet] : n \in 0..MaxLen}

InitSlugify ==
    /\ text \in {None} \cup {JStr(s) : s \in Texts}
    /\ slug = NotCalled
    /\ fs = {}
    /\ IdleRes
    /\ IdleMain

CallSlugify ==
    /\ slug = NotCalled
    /\ slug' = JStr(slugify(text))
    /\ UNCHANGED <<text, fs, resVars, mainVars>>

NextSlugify == CallSlugify

SpecSlugify == InitSlugify /\ [][NextSlugify]_vars

(***************************************************************************)
(* find_image_for and fill_game_icon on their own, over image trees with   *)
(* at most MaxPresent files in the directory of the year 2023.             *)
(***************************************************************************)
RDR_NAME  == <<"R","e","d"," ","D","e","a","d"," ","R","e","d","e","m","p","t","i","o","n">>
RDR2_NAME == RDR_NAME \o <<" ","2">>
RDR_SLUG  == <<"r","e","d","_","d","e","a","d","_","r","e","d","e","m","p","t","i","o","n">>
RDR2_SLUG == RDR_SLUG \o <<"_","2">>

YearDir(y) == Join(IMG_DIR, IntToStr(y))

\* the path of the candidate with suffix number si and extension number ei
CandPath(y, b, si, ei) == Join(YearDir(y), b \o SUFFIXES[si] \o EXTS[ei])

\* the file names a tree may hold
TreeFiles ==
    Range(Candidates(RDR2_SLUG)) \cup {RDR_SLUG \o EXTS[4], UNKNOWN \o EXTS[1]}

RECURSIVE SubsetsUpTo(_, _)
SubsetsUpTo(U, k) ==
    IF k = 0 THEN {{}}
    ELSE LET S == SubsetsUpTo(U, k - 1) IN S \cup {s \cup {x} : s \in S, x \in U}

\* no directory for the year, or the directory with some files
Trees ==
    {{}} \cup {{YearDir(2023)} \cup {Join(YearDir(2023), f) : f \in F} :
                  F \in SubsetsUpTo(TreeFiles, MaxPresent)}

ResYears == {2023, 2024}

ResNames ==
    {Absent, None, JStr(<<>>), JStr(<<" ", "\t">>), JStr(<<"-", "!">>), JInt(<<"7">>),
     JStr(RDR_NAME), JStr(RDR2_NAME)}

\* what icon_url may hold on entry: nothing, null, "", the placeholder, a stale path
STALE == <<"i","m","g","/","2","0","2","3","/","o","l","d",".","j","p","g">>

PriorIcons == {Absent, None, JStr(<<>>), JStr(PLACEHOLDER), JStr(STALE)}

InitResolver ==
    /\ IdleSlug
    /\ IdleMain
    /\ fs \in Trees
    /\ r_year \in ResYears
    /\ \/ /\ base_slug \in {RDR_SLUG, RDR2_SLUG, UNKNOWN}
          /\ game_obj = Dict(Absent, Absent)
       \/ /\ base_slug = <<>>
          /\ game_obj \in {Dict(n, i) : n \in ResNames, i \in PriorIcons}
    /\ img_path = NotCalled
    /\ first_obj = game_obj
    /\ outcome = "none"
    /\ slugged = FALSE
    /\ probes = <<>>
    /\ calls = 0

CallFindImageFor ==
    /\ base_slug # <<>>
    /\ img_path = NotCalled
    /\ LET r == find_image_for(r_year, base_slug)
       IN  /\ img_path' = r.ret
           /\ probes' = r.probes
    /\ UNCHANGED <<slugVars, fs, r_year, base_slug, game_obj, first_obj, outcome,
                   slugged, calls, mainVars>>

CallFillGameIcon ==
    /\ base_slug = <<>>
    /\ pc = "idle"
    /\ calls < MaxCalls
    /\ LET r == fill_game_icon(r_year, game_obj)
       IN  /\ game_obj' = r.obj
           /\ outcome' = r.outcome
           /\ slugged' = r.slugged
           /\ probes' = r.probes
           /\ first_obj' = IF calls = 0 THEN r.obj ELSE first_obj
    /\ calls' = calls + 1
    /\ UNCHANGED <<slugVars, fs, r_year, base_slug, img_path, mainVars>>

NextResolver == CallFindImageFor \/ CallFillGameIcon

SpecResolver == InitResolver /\ [][NextResolver]_vars

(***************************************************************************)
(* main.  The JSON files are steam_awards_*.json in sorted order; the      *)
(* image tree holds a.png and a_2.jpg for the year 2023.                   *)
(***************************************************************************)
FILE_NAMES ==
    <<"steam_awards_2021.json", "steam_awards_2022.json", "steam_awards_2023.json",
      "steam_awards_2024.json">>

A_ICON  == <<"i","m","g","/","2","0","2","3","/","a",".","p","n","g">>
A2_ICON == <<"i","m","g","/","2","0","2","3","/","a","_","2",".","j","p","g">>

MainTree == {YearDir(2023), A_ICON, A2_ICON}

\* the tree as it is, or with unknown.jpg beside the two files
MainTrees == {MainTree, MainTree \cup {CandPath(2023, UNKNOWN, 1, 1)}}

\* the winners and nominees of the documents: game objects whose name is found,
\* empty, blank, made of symbols or a number, over the icon_url values a file may
\* hold, and a value that is no dict
Entries ==
    {Dict(JStr(<<"A">>), Absent),
     Dict(JStr(<<"A">>), JStr(A_ICON)),
     Dict(JStr(<<"A">>), JStr(<<>>)),
     Dict(Absent, JStr(PLACEHOLDER)),
     Dict(JStr(<<" ">>), None),
     Dict(JStr(<<"-">>), JStr(A2_ICON)),
     Dict(JInt(<<"7">>), Absent),
     JStr(<<"x">>)}

\* a list of entries, each the winner of a new award ("W"), the first nominee
\* of a new award without winner ("NA") or one more nominee of the award ("N")
Tagged(n) ==
    {f \in [1..n -> {"W", "NA", "N"} \X Entries] : n > 0 => f[1][1] # "N"}

RECURSIVE Build(_, _)
Build(f, awards) ==
    IF f = <<>> THEN awards
    ELSE LET tag == Head(f)[1]
             e   == Head(f)[2]
             n   == Len(awards)
         IN  Build(Tail(f),
                   CASE tag = "W"  -> Append(awards, [winner |-> e, nominees |-> <<>>])
                     [] tag = "NA" -> Append(awards, [winner |-> Absent, nominees |-> <<e>>])
                     [] OTHER      -> [awards EXCEPT ![n].nominees = Append(@, e)])

AwardLists == {Build(f, <<>>) : f \in UNION {Tagged(n) : n \in 0..MaxEntries}}

YearValues ==
    {JInt(<<"2","0","2","3">>), JInt(<<"2","0","2","4">>),
     JFloat(<<"2","0","2","3",".","5">>), JStr(<<" ","2","0","2","3">>),
     JStr(<<"2","0","x","x">>), None, Absent}

Documents == {[year |-> y, awards |-> a] : y \in YearValues, a \in AwardLists}

\* the documents of a batch of several files
BatchDocuments ==
    {[year |-> y, awards |-> a] :
        y \in {JInt(<<"2","0","2","3">>), JFloat(<<"2","0","2","3",".","5">>),
               JStr(<<"2","0","x","x">>), Absent},
        a \in {<<>>,
               <<[winner |-> Dict(JStr(<<"A">>), Absent), nominees |-> <<>>]>>,
               <<[winner |-> Dict(JStr(<<"A">>), JStr(A_ICON)),
                  nominees |-> <<JStr(<<"x">>), Dict(Absent, JStr(PLACEHOLDER))>>]>>}}

Line(k, f, n, total) == [kind |-> k, file |-> f, n |-> n, total |-> total]

Init ==
    /\ IdleSlug
    /\ IdleRes
    /\ fs \in MainTrees
    /\ \/ /\ json_dir_exists = FALSE
          /\ files = <<>>
          /\ disk = <<>>
       \/ /\ json_dir_exists = TRUE
          /\ files = <<>>
          /\ disk = <<>>
       \/ /\ json_dir_exists = TRUE
          /\ files = SubSeq(FILE_NAMES, 1, 1)
          /\ disk \in [Range(files) -> Documents]
       \/ /\ json_dir_exists = TRUE
          /\ files = SubSeq(FILE_NAMES, 1, NumFiles)
          /\ disk \in [Range(files) -> BatchDocuments]
    /\ pc = "start"
    /\ idx = 0
    /\ loaded = None
    /\ data = None
    /\ year = 0
    /\ changed = FALSE
    /\ changed_files = 0
    /\ out = <<>>
    /\ reads = <<>>
    /\ writes = <<>>
    /\ disk0 = disk
    /\ error = "none"
    /\ history = <<>>
    /\ run = 1

notMain == <<slugVars, resVars, fs>>

\* lines 59-60
ExitNoJsonDir ==
    /\ pc = "start"
    /\ ~json_dir_exists
    /\ pc' = "exit"
    /\ error' = "SystemExit"
    /\ UNCHANGED <<json_dir_exists, files, disk, idx, loaded, data, year, changed,
                   changed_files, out, reads, writes, disk0, history, run, notMain>>

\* lines 62-64
ExitNoFiles ==
    /\ pc = "start"
    /\ json_dir_exists
    /\ files = <<>>
    /\ pc' = "exit"
    /\ error' = "SystemExit"
    /\ UNCHANGED <<json_dir_exists, files, disk, idx, loaded, data, year, changed,
                   changed_files, out, reads, writes, disk0, history, run, notMain>>

\* lines 62-67: the loop is entered
Begin ==
    /\ pc = "start"
    /\ json_dir_exists
    /\ files # <<>>
    /\ changed_files' = 0
    /\ idx' = 1
    /\ pc' = "loop"
    /\ UNCHANGED <<json_dir_exists, files, disk, loaded, data, year, changed,
                   out, reads, writes, disk0, error, history, run, notMain>>

\* lines 68-71: the file is read and its year coerced
LoadFile ==
    /\ pc = "loop"
    /\ idx <= Len(files)
    /\ LET doc == disk[files[idx]]
           y   == py_int(doc.year)
       IN  /\ y.ok
           /\ loaded' = doc
           /\ data' = doc
           /\ year' = y.n
    /\ changed' = FALSE
    /\ reads' = Append(reads, files[idx])
    /\ pc' = "awards"
    /\ UNCHANGED <<json_dir_exists, files, disk, idx, changed_files, out, writes,
                   disk0, error, history, run, notMain>>

\* lines 68-69: int() raises and the run ends
LoadFileRaises ==
    /\ pc = "loop"
    /\ idx <= Len(files)
    /\ LET doc == disk[files[idx]]
           y   == py_int(doc.year)
       IN  /\ ~y.ok
           /\ loaded' = doc
           /\ data' = doc
           /\ error' = y.error
    /\ reads' = Append(reads, files[idx])
    /\ pc' = "raised"
    /\ UNCHANGED <<json_dir_exists, files, disk, idx, year, changed, changed_files,
                   out, writes, disk0, history, run, notMain>>

\* lines 72-88: every award is visited
FillAwards ==
    /\ pc = "awards"
    /\ \E r \in {visit_awards(year, data.awards, 1, changed)} :
           /\ ~r.raised
           /\ data' = [data EXCEPT !.awards = r.awards]
           /\ changed' = r.changed
    /\ pc' = "write"
    /\ UNCHANGED <<json_dir_exists, files, disk, idx, loaded, year, changed_files,
                   out, reads, writes, disk0, error, history, run, notMain>>

\* lines 72-88: fill_game_icon raises on a name that is no text and the run ends
FillAwardsRaises ==
    /\ pc = "awards"
    /\ \E r \in {visit_awards(year, data.awards, 1, changed)} :
           /\ r.raised
           /\ data' = [data EXCEPT !.awards = r.awards]
           /\ changed' = r.changed
    /\ error' = "AttributeError"
    /\ pc' = "raised"
    /\ UNCHANGED <<json_dir_exists, files, disk, idx, loaded, year, changed_files,
                   out, reads, writes, disk0, history, run, notMain>>

\* lines 90-93
WriteFile ==
    /\ pc = "write"
    /\ changed
    /\ disk' = [disk EXCEPT ![files[idx]] = data]
    /\ changed_files' = changed_files + 1
    /\ out' = Append(out, Line("OK", files[idx], 0, 0))
    /\ writes' = Append(writes, files[idx])
    /\ idx' = idx + 1
    /\ pc' = "loop"
    /\ UNCHANGED <<json_dir_exists, files, loaded, data, year, changed, reads,
                   disk0, error, history, run, notMain>>

\* lines 94-95
SkipFile ==
    /\ pc = "write"
    /\ ~changed
    /\ out' = Append(out, Line("SKIP", files[idx], 0, 0))
    /\ idx' = idx + 1
    /\ pc' = "loop"
    /\ UNCHANGED <<json_dir_exists, files, disk, loaded, data, year, changed,
                   changed_files, reads, writes, disk0, error, history, run, notMain>>

\* line 97
Summary ==
    /\ pc = "loop"
    /\ idx > Len(files)
    /\ out' = Append(out, Line("DONE", "", changed_files, Len(files)))
    /\ pc' = "done"
    /\ UNCHANGED <<json_dir_exists, files, disk, idx, loaded, data, year, changed,
                   changed_files, reads, writes, disk0, error, history, run, notMain>>

\* lines 99-100: the script is run again on what the run before left
Rerun ==
    /\ pc = "done"
    /\ run < MaxRuns
    /\ run' = run + 1
    /\ history' = Append(history, changed_files)
    /\ disk0' = disk
    /\ pc' = "start"
    /\ idx' = 0
    /\ loaded' = None
    /\ data' = None
    /\ year' = 0
    /\ changed' = FALSE
    /\ changed_files' = 0
    /\ out' = <<>>
    /\ reads' = <<>>
    /\ writes' = <<>>
    /\ UNCHANGED <<json_dir_exists, files, disk, error, notMain>>

Next ==
    \/ ExitNoJsonDir
    \/ ExitNoFiles
    \/ Begin
    \/ LoadFile
    \/ LoadFileRaises
    \/ FillAwards
    \/ FillAwardsRaises
    \/ WriteFile
    \/ SkipFile
    \/ Summary
    \/ Rerun

Spec == Init /\ [][Next]_vars

(***************************************************************************)
(* Claims about slugify, find_image_for and fill_game_icon.                *)
(***************************************************************************)
SlugChars == Alnum \cup {"_"}

\* no character of the text leaves a character of [a-z0-9] behind
NothingSurvives(t) ==
    t.t # "str"
    \/ \A i \in DOMAIN t.v : t.v[i] # "&" /\ Range(LowerChar(t.v[i])) \cap Alnum = {}

\* C2: whatever the text (None, empty, blank, symbols, non-ASCII), slugify returns
\* a non-empty string over [a-z0-9_] with no two underscores in a row and none at
\* either end, and returns "unknown" when nothing alphanumeric survives.
C2_SlugWellFormed ==
    slug # NotCalled =>
        /\ slug.t = "str"
        /\ slug.v # <<>>
        /\ \A i \in DOMAIN slug.v : slug.v[i] \in SlugChars
        /\ \A i \in 1..(Len(slug.v) - 1) : ~(slug.v[i] = "_" /\ slug.v[i + 1] = "_")
        /\ slug.v[1] # "_"
        /\ slug.v[Len(slug.v)] # "_"
        /\ NothingSurvives(text) => slug.v = UNKNOWN

C2_Witness ==
    /\ text = JStr(<<"U+00C9", "-", "'">>)
    /\ slug = JStr(UNKNOWN)

\* the text find_image_for returns for that candidate
CandUrl(y, b, si, ei) ==
    <<"i","m","g","/">> \o IntToStr(y) \o <<"/">> \o b \o SUFFIXES[si] \o EXTS[ei]

\* suffix-major, extension-minor order
Earlier(sj, ej, si, ei) == sj < si \/ (sj = si /\ ej < ei)

NoCandidate(y, b) ==
    \/ ~Exists(YearDir(y))
    \/ \A si \in DOMAIN SUFFIXES, ei \in DOMAIN EXTS : ~Exists(CandPath(y, b, si, ei))

RDR2_ICON ==
    <<"i","m","g","/","2","0","2","3","/","r","e","d","_","d","e","a","d","_",
      "r","e","d","e","m","p","t","i","o","n","_","2",".","j","p","g">>

\* C3: find_image_for returns the existing candidate that comes first in
\* suffix-major, extension-minor order; an exact-stem match wins over every
\* suffixed one; with only red_dead_redemption_2.jpg present "Red Dead Redemption 2"
\* resolves to img/2023/red_dead_redemption_2.jpg.
C3_FirstInOrder ==
    /\ (img_path # NotCalled /\ ~NoCandidate(r_year, base_slug)) =>
          \E si \in DOMAIN SUFFIXES, ei \in DOMAIN EXTS :
              /\ img_path = JStr(CandUrl(r_year, base_slug, si, ei))
              /\ Exists(CandPath(r_year, base_slug, si, ei))
              /\ \A sj \in DOMAIN SUFFIXES, ej \in DOMAIN EXTS :
                    Earlier(sj, ej, si, ei) => ~Exists(CandPath(r_year, base_slug, sj, ej))
    /\ (/\ img_path # NotCalled
        /\ Exists(YearDir(r_year))
        /\ \E ei \in DOMAIN EXTS : Exists(CandPath(r_year, base_slug, 1, ei))) =>
          \E ei \in DOMAIN EXTS : img_path = JStr(CandUrl(r_year, base_slug, 1, ei))
    /\ (/\ calls >= 1
        /\ game_obj.game_name = JStr(RDR2_NAME)
        /\ r_year = 2023
        /\ fs = {YearDir(2023), Join(YearDir(2023), RDR2_SLUG \o EXTS[1])}) =>
          game_obj.icon_url = JStr(RDR2_ICON)

\* an exact stem with a late extension beside a suffixed name with the first one
C3_Witness ==
    /\ base_slug = RDR2_SLUG
    /\ r_year = 2023
    /\ Exists(CandPath(2023, RDR2_SLUG, 1, 3))
    /\ Exists(CandPath(2023, RDR2_SLUG, 2, 1))
    /\ img_path = JStr(CandUrl(2023, RDR2_SLUG, 1, 3))

\* the name of the game object is text with something left after strip()
HasName(g) == g.game_name.t = "str" /\ Strip(g.game_name.v, Whitespace) # <<>>

\* C4: with no directory for the year, or none of the 20 candidates in it,
\* find_image_for returns None, and fill_game_icon sets the placeholder and
\* returns normally.
C4_UnmatchedIsPlaceholder ==
    /\ (img_path # NotCalled /\ NoCandidate(r_year, base_slug)) => img_path = None
    /\ (/\ calls >= 1
        /\ HasName(game_obj)
        /\ NoCandidate(r_year, slugify(game_obj.game_name))) =>
          /\ outcome = "returned"
          /\ game_obj.icon_url = JStr(PLACEHOLDER)

\* the directory exists and holds other files, none a candidate of the name
C4_Witness ==
    /\ calls >= 1
    /\ game_obj.game_name = JStr(RDR2_NAME)
    /\ Exists(YearDir(r_year))
    /\ Exists(Join(YearDir(r_year), UNKNOWN \o EXTS[1]))
    /\ NoCandidate(r_year, RDR2_SLUG)
    /\ outcome = "returned"
    /\ game_obj.icon_url = JStr(PLACEHOLDER)

\* C6: a second fill_game_icon on the same object, the tree unchanged, leaves
\* the icon_url the first one left.
C6_FillIdempotent ==
    calls >= 2 => game_obj.icon_url = first_obj.icon_url

C6_Witness ==
    /\ calls = 2
    /\ outcome = "returned"
    /\ game_obj.icon_url = JStr(PLACEHOLDER)
    /\ first_obj.icon_url = JStr(PLACEHOLDER)
    /\ HasName(game_obj)

EmptyName(g) ==
    \/ g.game_name.t \in {"absent", "null"}
    \/ g.game_name.t = "str" /\ Strip(g.game_name.v, Whitespace) = <<>>

\* C7: an absent, null, empty or blank game_name gets the placeholder with no
\* slug computed and no path probed, even when unknown.jpg exists; a name of
\* symbols only is looked up under the slug "unknown".
C7_EmptyNameNoLookup ==
    calls >= 1 =>
        /\ EmptyName(game_obj) =>
              /\ outcome = "returned"
              /\ game_obj.icon_url = JStr(PLACEHOLDER)
              /\ ~slugged
              /\ probes = <<>>
        /\ (HasName(game_obj) /\ NothingSurvives(game_obj.game_name)) =>
              /\ slugged
              /\ probes # <<>>
              /\ probes[1] = YearDir(r_year)
              /\ \A k \in 2..Len(probes) :
                    probes[k] = Join(YearDir(r_year), Candidates(UNKNOWN)[k - 1])
              /\ Exists(CandPath(r_year, UNKNOWN, 1, 1)) =>
                    game_obj.icon_url = JStr(CandUrl(r_year, UNKNOWN, 1, 1))

C7_Witness ==
    /\ calls >= 1
    /\ game_obj.game_name = JStr(<<" ", "\t">>)
    /\ Exists(CandPath(r_year, UNKNOWN, 1, 1))
    /\ game_obj.icon_url = JStr(PLACEHOLDER)
    /\ probes = <<>>

\* a name of symbols finds unknown.jpg
C7_WitnessSymbols ==
    /\ calls >= 1
    /\ game_obj.game_name = JStr(<<"-", "!">>)
    /\ game_obj.icon_url = JStr(CandUrl(r_year, UNKNOWN, 1, 1))

(***************************************************************************)
(* Claims about main.                                                      *)
(***************************************************************************)
InSeq(x, q) == \E i \in DOMAIN q : q[i] = x
Last(q) == q[Len(q)]

\* the awards of the current file have all been visited
FileProcessed == pc = "write" \/ (pc \in {"loop", "done"} /\ idx > 1)

\* u is the placeholder or img/<y>/<name> for a <name> in the directory of y
GoodIcon(u, y) ==
    /\ u.t = "str"
    /\ u.v # <<>>
    /\ \/ u.v = PLACEHOLDER
       \/ \E p \in fs :
             /\ Len(p) > Len(YearDir(y)) + 1
             /\ SubSeq(p, 1, Len(YearDir(y)) + 1) = YearDir(y) \o <<"/">>
             /\ u.v = <<"i","m","g","/">> \o IntToStr(y) \o <<"/">>
                          \o SubSeq(p, Len(YearDir(y)) + 2, Len(p))

\* C1: once main has processed a file without error, every winner that is a dict
\* and every dict in a nominees list has as icon_url a non-empty string, the
\* placeholder or img/<year>/<file> for a file of the year's directory, whatever
\* icon_url it had.
C1_EveryVisitedHasIcon ==
    FileProcessed =>
        \A k \in DOMAIN data.awards :
            /\ data.awards[k].winner.t = "dict" =>
                  GoodIcon(data.awards[k].winner.icon_url, year)
            /\ \A j \in DOMAIN data.awards[k].nominees :
                  data.awards[k].nominees[j].t = "dict" =>
                      GoodIcon(data.awards[k].nominees[j].icon_url, year)

\* a stale path replaced by the placeholder and a missing icon_url by a path
C1_Witness ==
    /\ pc = "write"
    /\ year = 2023
    /\ Len(data.awards) = 1
    /\ loaded.awards[1].winner = Dict(JStr(<<"-">>), JStr(A2_ICON))
    /\ data.awards[1].winner.icon_url = JStr(PLACEHOLDER)
    /\ loaded.awards[1].nominees = <<Dict(JStr(<<"A">>), Absent)>>
    /\ data.awards[1].nominees[1].icon_url = JStr(A_ICON)

\* some visited game object of the document has another icon_url than before
DictDiffers(before, after) ==
    \E k \in DOMAIN before.awards :
        \/ /\ before.awards[k].winner.t = "dict"
           /\ PyGet(after.awards[k].winner.icon_url) # PyGet(before.awards[k].winner.icon_url)
        \/ \E j \in DOMAIN before.awards[k].nominees :
              /\ before.awards[k].nominees[j].t = "dict"
              /\ PyGet(after.awards[k].nominees[j].icon_url)
                    # PyGet(before.awards[k].nominees[j].icon_url)

\* C5: a file is written exactly when some visited game object's icon_url
\* differs from what it was; a file without such a difference stays as it was
\* on disk; the summary counts the files written.
C5_WrittenIffChanged ==
    /\ (pc = "loop" /\ idx > 1) =>
          /\ InSeq(files[idx - 1], writes) <=> DictDiffers(loaded, data)
          /\ InSeq(files[idx - 1], writes) =>
                /\ disk[files[idx - 1]] = data
                /\ Last(out) = Line("OK", files[idx - 1], 0, 0)
          /\ ~InSeq(files[idx - 1], writes) =>
                /\ disk[files[idx - 1]] = disk0[files[idx - 1]]
                /\ Last(out) = Line("SKIP", files[idx - 1], 0, 0)
    /\ pc = "done" =>
          /\ Last(out) = Line("DONE", "", Len(writes), Len(files))
          /\ \A f \in Range(files) : disk[f] # disk0[f] => InSeq(f, writes)

\* of several files some are written and some are not
C5_Witness ==
    /\ pc = "done"
    /\ Len(files) > 1
    /\ Len(out) = Len(files) + 1
    /\ out[1].kind = "SKIP"
    /\ out[2].kind = "OK"
    /\ changed_files = 1

\* what holds when the run ends on the file at idx
AbortFrame ==
    /\ ~InSeq(files[idx], writes)
    /\ disk[files[idx]] = disk0[files[idx]]
    /\ \A j \in (idx + 1)..Len(files) :
          /\ ~InSeq(files[j], reads)
          /\ ~InSeq(files[j], writes)
          /\ disk[files[j]] = disk0[files[j]]
    /\ \A i \in DOMAIN out : out[i].kind # "DONE"
    /\ \A i \in DOMAIN writes : \E j \in 1..(idx - 1) : writes[i] = files[j]

\* the files are read one after another in sorted order, written after being read
Sequential ==
    /\ reads = SubSeq(files, 1, Len(reads))
    /\ \A i \in DOMAIN writes : InSeq(writes[i], reads)

Rejected(j) ==
    \/ j.t \in {"absent", "null"}
    \/ /\ j.t = "str"
       /\ ~DigitsOk(IF Signed(Strip(j.v, Whitespace))
                    THEN Tail(Strip(j.v, Whitespace)) ELSE Strip(j.v, Whitespace))

C9_NonDictSkipped ==
    /\ FileProcessed =>
          \A k \in DOMAIN loaded.awards :
              /\ Len(data.awards[k].nominees) = Len(loaded.awards[k].nominees)
              /\ \A j \in DOMAIN loaded.awards[k].nominees :
                    /\ loaded.awards[k].nominees[j].t # "dict" =>
                          data.awards[k].nominees[j] = loaded.awards[k].nominees[j]
                    /\ loaded.awards[k].nominees[j].t = "dict" =>
                          GoodIcon(data.awards[k].nominees[j].icon_url, year)
    /\ pc = "write" => (changed <=> DictDiffers(loaded, data))
    /\ (pc = "raised" /\ error = "AttributeError") =>
          \E k \in DOMAIN loaded.awards :
              \/ /\ loaded.awards[k].winner.t = "dict"
                 /\ loaded.awards[k].winner.game_name.t \notin {"str", "absent", "null"}
              \/ \E j \in DOMAIN loaded.awards[k].nominees :
                    /\ loaded.awards[k].nominees[j].t = "dict"
                    /\ loaded.awards[k].nominees[j].game_name.t
                          \notin {"str", "absent", "null"}

\* a string among the nominees, a game object after it filled
C9_Witness ==
    /\ pc = "write"
    /\ Len(loaded.awards) = 1
    /\ loaded.awards[1].nominees = <<JStr(<<"x">>), Dict(JStr(<<"A">>), Absent)>>
    /\ data.awards[1].nominees[1] = JStr(<<"x">>)
    /\ data.awards[1].nominees[2].icon_url = JStr(A_ICON)
    /\ changed

\* C10: a run after a complete run, the image tree unchanged, finds no change,
\* writes no file and reports 0 updated files.
C10_SecondRunNoChange ==
    run >= 2 =>
        /\ writes = <<>>
        /\ disk = disk0
        /\ changed_files = 0
        /\ pc # "raised"
        /\ pc = "write" => ~changed
        /\ \A i \in DOMAIN out : out[i].kind # "OK"
        /\ pc = "done" => Last(out) = Line("DONE", "", 0, Len(files))

\* the first run rewrote files, the second has finished
C10_Witness ==
    /\ run = 2
    /\ pc = "done"
    /\ history[1] > 0
    /\ Len(out) = Len(files) + 1

====
